---- MODULE Spec2Model ----
(***************************************************************************)
(* A model of the CHIP-8 interpreter of src/src: the CPU (chip8.rs), the   *)
(* keyboard (keyboard.rs), the pixel array of the display (display.rs) and *)
(* the host loop that drives them (main.rs).                               *)
(*                                                                         *)
(* The machine is driven through its public operations: load_program,     *)
(* cycle, tick_timers, on_key_down, on_key_up and the host's pause toggle. *)
(* Each of them is one action.  The operations themselves are operators   *)
(* over a record holding the fields of Chip8 (and of its Keyboard and      *)
(* Display), written after the Rust functions of the same name.           *)
(***************************************************************************)
EXTENDS Integers, Sequences, FiniteSets, TLC

VARIABLES
    ram,                 \* Chip8.ram: [u8; 4096]
    registers,           \* Chip8.registers: [u8; 16]
    i_register,          \* Chip8.i_register: usize
    delay_timer,         \* Chip8.delay_timer: u8
    sound_timer,         \* Chip8.sound_timer: u8
    pc,                  \* Chip8.pc: usize
    stack_ptr,           \* Chip8.stack_ptr: usize
    stack,               \* Chip8.stack: [u16; 16]
    pixels,              \* Display.pixels, as the set of <<y, x>> that are on
    keys_down,           \* Keyboard.keys_down: HashSet<u8>
    awaiting_key_press,  \* Keyboard.awaiting_key_press
    recieved_key_press,  \* Keyboard.recieved_key_press
    last_key_pressed,    \* Keyboard.last_key_pressed
    paused,              \* Chip8.paused
    current_instruction, \* Chip8.current_instruction
    sink,                \* the call the last operation made on Chip8.sink
    panicked,            \* the process has panicked (index out of bounds, overflow)
    host,                \* main's position: "constructed" before load_program
    hist,                \* the last HistLen instructions dispatched by cycle()
    clock,               \* sound_interval.elapsed() in main, in milliseconds
    tick_times           \* the clock at the last TickLen calls of tick_timers by main's closure

vars == <<ram, registers, i_register, delay_timer, sound_timer, pc, stack_ptr,
          stack, pixels, keys_down, awaiting_key_press, recieved_key_press,
          last_key_pressed, paused, current_instruction, sink, panicked, host,
          hist, clock, tick_times>>

-----------------------------------------------------------------------------
(* Bounds of the model.                                                    *)

\* How many of the 16 mapped host keys the environment presses and releases.
NumKeys == 2

\* How many dispatched instructions hist remembers.
HistLen == 4

\* How many milliseconds the host loop is followed after its start.
MaxClock == 18

\* How many calls of tick_timers tick_times remembers.
TickLen == 2

-----------------------------------------------------------------------------
(* Program constants.                                                      *)

RAM_SIZE == 4096
NUM_REGISTERS == 16
STACK_SIZE == 16
PROGRAM_START == 512
WIDTH == 64
HEIGHT == 32
\* usize::MAX.  TLC's integers are 32 bits wide, so the model's usize is the
\* largest integer TLC has; the code only ever uses it as an index that is
\* out of every array's bounds.
USIZE_MAX == 2147483647

-----------------------------------------------------------------------------
(* Bit operations on naturals, bit by bit as the hardware does them.       *)

RECURSIVE BitAnd(_, _)
BitAnd(a, b) ==
    IF a = 0 \/ b = 0 THEN 0
    ELSE (IF a % 2 = 1 /\ b % 2 = 1 THEN 1 ELSE 0) + 2 * BitAnd(a \div 2, b \div 2)

RECURSIVE BitOr(_, _)
BitOr(a, b) ==
    IF a = 0 THEN b
    ELSE IF b = 0 THEN a
    ELSE (IF a % 2 = 1 \/ b % 2 = 1 THEN 1 ELSE 0) + 2 * BitOr(a \div 2, b \div 2)

RECURSIVE BitXor(_, _)
BitXor(a, b) ==
    IF a = 0 THEN b
    ELSE IF b = 0 THEN a
    ELSE (((a % 2) + (b % 2)) % 2) + 2 * BitXor(a \div 2, b \div 2)

RECURSIVE Pow2(_)
Pow2(n) == IF n = 0 THEN 1 ELSE 2 * Pow2(n - 1)

\* a >> n
Shr(a, n) == a \div Pow2(n)

\* a << n in a w-bit integer
Shl(a, n, w) == (a * Pow2(n)) % Pow2(w)

-----------------------------------------------------------------------------
(* Instruction (chip8.rs 7-59).                                            *)

Instruction_new(instruction) ==
    [digit1 |-> Shr(BitAnd(instruction, 61440), 12),
     digit2 |-> Shr(BitAnd(instruction, 3840), 8),
     digit3 |-> Shr(BitAnd(instruction, 240), 4),
     digit4 |-> BitAnd(instruction, 15)]

d1(instruction) == instruction.digit1
d2(instruction) == instruction.digit2
d3(instruction) == instruction.digit3
d4(instruction) == instruction.digit4

nn(instruction) == BitOr(Shl(instruction.digit3, 4, 16), instruction.digit4)

\* A faulty nnn: the second digit is shifted like the third.
nnn_shifting_by_four(instruction) ==
    BitOr(BitOr(Shl(instruction.digit2, 4, 16), Shl(instruction.digit3, 4, 16)),
          instruction.digit4)

nnn(instruction) ==
    BitOr(BitOr(Shl(instruction.digit2, 8, 16), Shl(instruction.digit3, 4, 16)),
          instruction.digit4)

\* The 16-bit word an Instruction was decoded from.
Word(instruction) ==
    instruction.digit1 * 4096 + instruction.digit2 * 256
        + instruction.digit3 * 16 + instruction.digit4

-----------------------------------------------------------------------------
(* Keyboard (keyboard.rs).                                                 *)

\* key_map, in the order Keyboard::new lists it.
KeyOrder ==
    << <<"Key1", 1>>, <<"Key2", 2>>, <<"Key3", 3>>, <<"Key4", 12>>,
       <<"Q", 4>>, <<"W", 5>>, <<"E", 6>>, <<"R", 13>>,
       <<"A", 7>>, <<"S", 8>>, <<"D", 9>>, <<"F", 14>>,
       <<"Z", 10>>, <<"X", 0>>, <<"C", 11>>, <<"V", 15>> >>

MappedKeys == {KeyOrder[i][1] : i \in 1..Len(KeyOrder)}

key_map(key) == (CHOOSE i \in 1..Len(KeyOrder) : KeyOrder[i][1] = key)

KeyCode(key) == KeyOrder[key_map(key)][2]

\* The host keys the environment uses: the first NumKeys mapped keys and one
\* key the map does not hold.
HostKeys ==
    {KeyOrder[i][1] : i \in 1..(IF NumKeys < Len(KeyOrder) THEN NumKeys ELSE Len(KeyOrder))}
        \cup {"Space"}

is_pressed(s, key) == key \in s.keys_down

\* A faulty on_key_down: a key going down ends the wait, as a key going up
\* does.
on_key_down_ending_wait(s, key) ==
    IF key \in MappedKeys
    THEN LET s1 == [s EXCEPT !.keys_down = @ \cup {KeyCode(key)}]
         IN  IF s1.awaiting_key_press
             THEN [s1 EXCEPT !.awaiting_key_press = FALSE,
                             !.recieved_key_press = TRUE,
                             !.last_key_pressed = KeyCode(key)]
             ELSE s1
    ELSE s

on_key_down(s, key) ==
    IF key \in MappedKeys
    THEN [s EXCEPT !.keys_down = @ \cup {KeyCode(key)}]
    ELSE s

on_key_up(s, key) ==
    IF key \in MappedKeys
    THEN LET s1 == [s EXCEPT !.keys_down = @ \ {KeyCode(key)}]
         IN  IF s1.awaiting_key_press
             THEN [s1 EXCEPT !.awaiting_key_press = FALSE,
                             !.recieved_key_press = TRUE,
                             !.last_key_pressed = KeyCode(key)]
             ELSE s1
    ELSE s

get_last_key_pressed(s) == s.last_key_pressed

-----------------------------------------------------------------------------
(* Display (display.rs 170-201).                                           *)

clear_screen == {}

\* One pass of draw's inner loop, for bit_number in 0..8, over the row of
\* byte block: the eight pixels it visits are distinct (8 < WIDTH), so each is
\* read as the row began; pixel_turned_off is assigned at every bit, and the
\* loop leaves it as its last pass, bit_number = 7, set it.
draw_row(acc, starting_x, y, block) ==
    LET X(bit_number) == (starting_x + bit_number) % WIDTH
        current_pixel(bit_number) ==
            IF <<y, X(bit_number)>> \in acc.pixels THEN 1 ELSE 0
        current_bit(bit_number) == BitAnd(Shr(block, 7 - bit_number), 1)
        new_pixel(bit_number) ==
            BitXor(current_bit(bit_number), current_pixel(bit_number))
        visited == {<<y, X(bit_number)>> : bit_number \in 0..7}
        turned_on == {<<y, X(bit_number)>> :
                         bit_number \in {b \in 0..7 : new_pixel(b) # 0}}
    IN  [pixels |-> (acc.pixels \ visited) \cup turned_on,
         pixel_turned_off |-> (current_pixel(7) = 1 /\ new_pixel(7) = 0)]

\* draw's outer loop, from byte_number to the end of memory (a sequence of
\* bytes).  acc = [pixels, pixel_turned_off].
RECURSIVE draw_loop(_, _, _, _, _)
draw_loop(acc, starting_x, starting_y, memory, byte_number) ==
    IF byte_number >= Len(memory) THEN acc
    ELSE LET block == memory[byte_number + 1]
             y == (starting_y + byte_number) % HEIGHT
         IN  draw_loop(draw_row(acc, starting_x, y, block),
                       starting_x, starting_y, memory, byte_number + 1)

\* Display::draw: the pixels after the call and the value returned.
draw(px, starting_x, starting_y, memory) ==
    draw_loop([pixels |-> px, pixel_turned_off |-> FALSE],
              starting_x, starting_y, memory, 0)

-----------------------------------------------------------------------------
(* Chip8 (chip8.rs 61-377).                                                *)

\* The 80 bytes load_sprites_into_memory writes at ram[0..80).
sprites ==
    << 240, 144, 144, 144, 240,     32,  96,  32,  32, 112,
       240,  16, 240, 128, 240,    240,  16, 240,  16, 240,
       144, 144, 240,  16,  16,    240, 128, 240,  16, 240,
       240, 128, 240, 144, 240,    240,  16,  32,  64,  64,
       240, 144, 240, 144, 240,    240, 144, 240,  16, 240,
       240, 144, 240, 144, 144,    224, 144, 224, 144, 224,
       240, 128, 128, 128, 240,    224, 144, 144, 144, 224,
       240, 128, 240, 128, 240,    240, 128, 240, 128, 128 >>

\* A faulty loader: the table goes to 0x050, where other interpreters keep it.
load_sprites_above(s) ==
    [s EXCEPT !.ram = [a \in 0..(RAM_SIZE - 1) |->
                          IF a >= 80 /\ a - 80 < Len(sprites)
                          THEN sprites[a - 80 + 1] ELSE s.ram[a]]]

load_sprites_into_memory(s) ==
    [s EXCEPT !.ram = [a \in 0..(RAM_SIZE - 1) |->
                          IF a < Len(sprites) THEN sprites[a + 1] ELSE s.ram[a]]]

\* Chip8::new, Keyboard::new and the pixel array of Display::new.
Chip8_new ==
    load_sprites_into_memory(
        [ram |-> [a \in 0..(RAM_SIZE - 1) |-> 0],
         registers |-> [r \in 0..(NUM_REGISTERS - 1) |-> 0],
         i_register |-> 0,
         delay_timer |-> 0,
         sound_timer |-> 0,
         pc |-> PROGRAM_START,
         stack_ptr |-> 0,
         stack |-> [e \in 0..(STACK_SIZE - 1) |-> 0],
         pixels |-> {},
         keys_down |-> {},
         awaiting_key_press |-> FALSE,
         recieved_key_press |-> FALSE,
         last_key_pressed |-> 0,
         paused |-> FALSE,
         current_instruction |-> Instruction_new(0),
         sink |-> "none",
         panicked |-> FALSE,
         hist |-> << >>])

\* A faulty load_program: it copies the bytes that fit and returns.
load_program_truncating(s, program) ==
    LET room == RAM_SIZE - PROGRAM_START
        written == IF Len(program) < room THEN Len(program) ELSE room
    IN  [s EXCEPT !.ram = [a \in PROGRAM_START..(PROGRAM_START + written - 1) |->
                              program[a - PROGRAM_START + 1]] @@ s.ram]

\* load_program: ram[0x200 + i] = byte for each byte in turn; the write that
\* falls outside ram panics, with the earlier bytes written.
load_program(s, program) ==
    LET room == RAM_SIZE - PROGRAM_START
        written == IF Len(program) < room THEN Len(program) ELSE room
    IN  [s EXCEPT !.ram = [a \in PROGRAM_START..(PROGRAM_START + written - 1) |->
                              program[a - PROGRAM_START + 1]] @@ s.ram,
                  !.panicked = Len(program) > room]

next_instruction(s) == [s EXCEPT !.pc = @ + 2]

\* fetch_instruction; reading ram[pc] or ram[pc + 1] outside ram panics before
\* anything is written.
fetch_instruction(s) ==
    IF s.pc + 1 >= RAM_SIZE
    THEN [s EXCEPT !.panicked = TRUE]
    ELSE LET first_byte == s.ram[s.pc]
             second_byte == s.ram[s.pc + 1]
             instruction == BitOr(Shl(first_byte, 8, 16), second_byte)
         IN  [next_instruction(s) EXCEPT
                 !.current_instruction = Instruction_new(instruction)]

\* ram[at + i] = values[i + 1] for i = 0, 1, ... in turn; the write that falls
\* outside ram panics, with the earlier ones done.
RECURSIVE write_ram(_, _, _, _)
write_ram(s, at, values, i) ==
    IF i >= Len(values) THEN s
    ELSE IF at + i >= RAM_SIZE THEN [s EXCEPT !.panicked = TRUE]
    ELSE write_ram([s EXCEPT !.ram[at + i] = values[i + 1]], at, values, i + 1)

\* A faulty loop of Fx65: 0..x where 0..=x is meant, so Vx is not loaded.
RECURSIVE read_registers_exclusive(_, _, _)
read_registers_exclusive(s, x, i) ==
    IF i >= x THEN s
    ELSE IF s.i_register + i >= RAM_SIZE THEN [s EXCEPT !.panicked = TRUE]
    ELSE read_registers_exclusive(
             [s EXCEPT !.registers[i] = s.ram[s.i_register + i]], x, i + 1)

\* registers[i] = ram[i_register + i] for i = from .. x in turn.
RECURSIVE read_registers(_, _, _)
read_registers(s, x, i) ==
    IF i > x THEN s
    ELSE IF s.i_register + i >= RAM_SIZE THEN [s EXCEPT !.panicked = TRUE]
    ELSE read_registers([s EXCEPT !.registers[i] = s.ram[s.i_register + i]], x, i + 1)

\* A faulty Fx33: the tens digit is num / 10, without the % 10.
store_digits_without_modulo(s, x) ==
    LET num == s.registers[x]
    IN  write_ram(s, s.i_register, <<num \div 100, num \div 10, num % 10>>, 0)

\* Fx33 (chip8.rs 306-313): num / 100, (num / 10) % 10 and num % 10 written
\* to ram[I], ram[I + 1], ram[I + 2] in turn.
store_digits(s, x) ==
    LET num == s.registers[x]
    IN  write_ram(s, s.i_register,
                  <<num \div 100, (num \div 10) % 10, num % 10>>, 0)

\* Fx55 (chip8.rs 314-318): ram[I + i] = registers[i] for i in 0..=x.
store_registers(s, x) ==
    write_ram(s, s.i_register, [i \in 1..(x + 1) |-> s.registers[i - 1]], 0)

\* Fx65 (chip8.rs 319-323): registers[i] = ram[I + i] for i in 0..=x.
load_registers(s, x) == read_registers(s, x, 0)

\* A faulty skip: it skips when the condition fails.
skip_if_inverted(s, cond) == IF cond THEN s ELSE next_instruction(s)

\* The conditional skips (chip8.rs 175-194, 270-279): next_instruction() when
\* the condition holds.
skip_if(s, cond) == IF cond THEN next_instruction(s) ELSE s

\* Fx18 (chip8.rs 286-292).
set_sound_timer(s, x) ==
    LET s1 == [s EXCEPT !.sound_timer = s.registers[x]]
    IN  IF s1.sound_timer > 0 THEN [s1 EXCEPT !.sink = "play"] ELSE s1

\* 00EE (chip8.rs 162-166).  With the stack empty, stack_ptr -= 1 panics in a
\* build with overflow checks; without them it wraps and the index panics.
return_from_call(s, overflow_checks) ==
    IF s.stack_ptr = 0
    THEN IF overflow_checks
         THEN [s EXCEPT !.panicked = TRUE]
         ELSE [s EXCEPT !.stack_ptr = USIZE_MAX, !.panicked = TRUE]
    ELSE LET s1 == [s EXCEPT !.stack_ptr = @ - 1]
         IN  IF s1.stack_ptr >= STACK_SIZE
             THEN [s1 EXCEPT !.panicked = TRUE]
             ELSE [s1 EXCEPT !.pc = s1.stack[s1.stack_ptr]]

\* A faulty 2nnn: it pushes the address of the call, not of what follows it.
call_pushing_own_address(s, instruction) ==
    IF s.stack_ptr >= STACK_SIZE
    THEN [s EXCEPT !.panicked = TRUE]
    ELSE [s EXCEPT !.stack[s.stack_ptr] = (s.pc - 2) % 65536,
                   !.pc = nnn(instruction),
                   !.stack_ptr = @ + 1]

\* 2nnn (chip8.rs 170-174).
call(s, instruction) ==
    IF s.stack_ptr >= STACK_SIZE
    THEN [s EXCEPT !.panicked = TRUE]
    ELSE [s EXCEPT !.stack[s.stack_ptr] = s.pc % 65536,
                   !.pc = nnn(instruction),
                   !.stack_ptr = @ + 1]

\* A faulty 8xy4: the flag is written first, so that with x = F the sum
\* replaces it.
add_registers_flag_first(s, x, y) ==
    LET new_vx == (s.registers[x] + s.registers[y]) % 256
        overflow == s.registers[x] + s.registers[y] > 255
        s1 == [s EXCEPT !.registers[15] = IF overflow THEN 1 ELSE 0]
    IN  [s1 EXCEPT !.registers[x] = new_vx]

\* 8xy4 (chip8.rs 213-218): overflowing_add, Vx written, then VF.
add_registers(s, x, y) ==
    LET new_vx == (s.registers[x] + s.registers[y]) % 256
        overflow == s.registers[x] + s.registers[y] > 255
        s1 == [s EXCEPT !.registers[x] = new_vx]
    IN  [s1 EXCEPT !.registers[15] = IF overflow THEN 1 ELSE 0]

\* 8xy5 (chip8.rs 219-224): overflowing_sub, Vx written, then VF = !underflow.
subtract_registers(s, x, y) ==
    LET new_vx == (s.registers[x] - s.registers[y] + 256) % 256
        underflow == s.registers[x] < s.registers[y]
        s1 == [s EXCEPT !.registers[x] = new_vx]
    IN  [s1 EXCEPT !.registers[15] = IF underflow THEN 0 ELSE 1]

\* 8xy7 (chip8.rs 225-230): Vy.overflowing_sub(Vx), Vx written, then VF.
subtract_from_register(s, x, y) ==
    LET new_vx == (s.registers[y] - s.registers[x] + 256) % 256
        underflow == s.registers[y] < s.registers[x]
        s1 == [s EXCEPT !.registers[x] = new_vx]
    IN  [s1 EXCEPT !.registers[15] = IF underflow THEN 0 ELSE 1]

\* A faulty 8xy6: it shifts Vx in place and never copies Vy.
shift_right_in_place(s, x, y) ==
    LET og_vx == s.registers[x]
        s2 == [s EXCEPT !.registers[x] = Shr(@, 1)]
        shifted_bit == BitAnd(og_vx, 1)
    IN  [s2 EXCEPT !.registers[15] = shifted_bit]

\* 8xy6 (chip8.rs 231-241): Vx = Vy, the copy's low bit kept, Vx >>= 1, VF.
shift_right(s, x, y) ==
    LET s1 == [s EXCEPT !.registers[x] = s.registers[y]]
        og_vx == s1.registers[x]
        s2 == [s1 EXCEPT !.registers[x] = Shr(@, 1)]
        shifted_bit == BitAnd(og_vx, 1)
    IN  [s2 EXCEPT !.registers[15] = shifted_bit]

\* 8xyE (chip8.rs 242-252): Vx = Vy, the copy's high bit kept, Vx <<= 1, VF.
shift_left(s, x, y) ==
    LET s1 == [s EXCEPT !.registers[x] = s.registers[y]]
        og_vx == s1.registers[x]
        s2 == [s1 EXCEPT !.registers[x] = Shl(@, 1, 8)]
        shifted_bit == BitAnd(Shr(og_vx, 7), 1)
    IN  [s2 EXCEPT !.registers[15] = shifted_bit]

\* Fx1E (chip8.rs 293-298): VF is written only when I has passed 0x0FFF.
add_to_index(s, x) ==
    LET s1 == [s EXCEPT !.i_register = @ + s.registers[x]]
    IN  IF s1.i_register > 4095
        THEN [s1 EXCEPT !.registers[15] = 1]
        ELSE s1

\* Dxyn (chip8.rs 262-269); the slice ram[from..to] panics when to > 4096.
draw_sprite(s, x, y, n) ==
    LET vx == s.registers[x]
        vy == s.registers[y]
        from == s.i_register
        to == from + n
    IN  IF to > RAM_SIZE
        THEN [s EXCEPT !.panicked = TRUE]
        ELSE LET r == draw(s.pixels, vx, vy, [k \in 1..n |-> s.ram[from + k - 1]])
             IN  [s EXCEPT !.pixels = r.pixels,
                           !.registers[15] = IF r.pixel_turned_off THEN 1 ELSE 0]

\* excecute_instruction (chip8.rs 155-326).  rnd is the byte rand::random
\* returns; overflow_checks tells whether the build panics on integer overflow.
excecute_instruction(s, rnd, overflow_checks) ==
    LET instruction == s.current_instruction
        a == d1(instruction)
        x == d2(instruction)
        y == d3(instruction)
        n == d4(instruction)
        V == s.registers
    IN  CASE a = 0 /\ x = 0 /\ y = 14 /\ n = 0 ->
                [s EXCEPT !.pixels = clear_screen]
          [] a = 0 /\ x = 0 /\ y = 14 /\ n = 14 ->
                return_from_call(s, overflow_checks)
          [] a = 1 ->
                [s EXCEPT !.pc = nnn(instruction)]
          [] a = 2 ->
                call(s, instruction)
          [] a = 3 ->
                skip_if(s, V[x] = nn(instruction) % 256)
          [] a = 4 ->
                skip_if(s, V[x] # nn(instruction) % 256)
          [] a = 5 /\ n = 0 ->
                skip_if(s, V[x] = V[y])
          [] a = 9 /\ n = 0 ->
                skip_if(s, V[x] # V[y])
          [] a = 6 ->
                [s EXCEPT !.registers[x] = nn(instruction) % 256]
          [] a = 7 ->
                [s EXCEPT !.registers[x] = (V[x] + (nn(instruction) % 256)) % 256]
          [] a = 8 /\ n = 0 ->
                [s EXCEPT !.registers[x] = V[y]]
          [] a = 8 /\ n = 1 ->
                [s EXCEPT !.registers[x] = BitOr(V[x], V[y])]
          [] a = 8 /\ n = 2 ->
                [s EXCEPT !.registers[x] = BitAnd(V[x], V[y])]
          [] a = 8 /\ n = 3 ->
                [s EXCEPT !.registers[x] = BitXor(V[x], V[y])]
          [] a = 8 /\ n = 4 ->
                add_registers(s, x, y)
          [] a = 8 /\ n = 5 ->
                subtract_registers(s, x, y)
          [] a = 8 /\ n = 7 ->
                subtract_from_register(s, x, y)
          [] a = 8 /\ n = 6 ->
                shift_right(s, x, y)
          [] a = 8 /\ n = 14 ->
                shift_left(s, x, y)
          [] a = 10 ->
                [s EXCEPT !.i_register = nnn(instruction)]
          [] a = 11 ->
                [s EXCEPT !.pc = nnn(instruction) + V[0]]
          [] a = 12 ->
                [s EXCEPT !.registers[x] = BitAnd(rnd, nn(instruction) % 256)]
          [] a = 13 ->
                draw_sprite(s, x, y, n)
          \* (0xE, x, _0x9, 0xE): _0x9 is an identifier, so the third digit
          \* is bound, not compared.
          [] a = 14 /\ n = 14 ->
                skip_if(s, is_pressed(s, V[x]))
          [] a = 14 /\ y = 10 /\ n = 1 ->
                skip_if(s, ~is_pressed(s, V[x]))
          [] a = 15 /\ y = 0 /\ n = 7 ->
                [s EXCEPT !.registers[x] = s.delay_timer]
          [] a = 15 /\ y = 1 /\ n = 5 ->
                [s EXCEPT !.delay_timer = V[x]]
          [] a = 15 /\ y = 1 /\ n = 8 ->
                set_sound_timer(s, x)
          [] a = 15 /\ y = 1 /\ n = 14 ->
                add_to_index(s, x)
          [] a = 15 /\ y = 0 /\ n = 10 ->
                [s EXCEPT !.awaiting_key_press = TRUE]
          [] a = 15 /\ y = 2 /\ n = 9 ->
                [s EXCEPT !.i_register = V[x] * 5]
          [] a = 15 /\ y = 3 /\ n = 3 ->
                store_digits(s, x)
          [] a = 15 /\ y = 5 /\ n = 5 ->
                store_registers(s, x)
          [] a = 15 /\ y = 6 /\ n = 5 ->
                load_registers(s, x)
          [] OTHER -> s

\* A faulty handle_await_keypress: recieved_key_press is left set.
handle_await_keypress_keeping_flag(s) ==
    [s EXCEPT !.registers[d2(s.current_instruction)] = get_last_key_pressed(s),
              !.awaiting_key_press = FALSE]

\* handle_await_keypress (chip8.rs 368-372).
handle_await_keypress(s) ==
    [s EXCEPT !.registers[d2(s.current_instruction)] = get_last_key_pressed(s),
              !.awaiting_key_press = FALSE,
              !.recieved_key_press = FALSE]

\* What hist keeps of a dispatch: the address the instruction was fetched
\* from, its word, and the registers and stack pointer it started from.
Dispatched(before, after) ==
    [addr |-> before.pc,
     op |-> Word(after.current_instruction),
     regs |-> before.registers,
     sp |-> before.stack_ptr]

Remember(h, e) ==
    IF Len(h) < HistLen THEN Append(h, e) ELSE Append(Tail(h), e)

\* The fetch and execute of cycle (chip8.rs 334-337).
fetch_and_excecute(s, rnd, overflow_checks) ==
    IF s.awaiting_key_press THEN s
    ELSE LET s1 == fetch_instruction(s)
         IN  IF s1.panicked THEN s1
             ELSE excecute_instruction(
                      [s1 EXCEPT !.hist = Remember(@, Dispatched(s, s1))],
                      rnd, overflow_checks)

\* A faulty cycle: it fetches and executes whether or not a key is awaited.
cycle_ignoring_wait(s, rnd, overflow_checks) ==
    IF s.paused THEN s
    ELSE fetch_and_excecute(
             [(IF s.recieved_key_press THEN handle_await_keypress(s) ELSE s)
                 EXCEPT !.awaiting_key_press = FALSE],
             rnd, overflow_checks)

\* A faulty cycle: it resolves the key wait after the fetch and execute.
cycle_resolving_late(s, rnd, overflow_checks) ==
    IF s.paused THEN s
    ELSE LET s1 == fetch_and_excecute(s, rnd, overflow_checks)
         IN  IF s.recieved_key_press /\ ~s1.panicked
             THEN handle_await_keypress(s1)
             ELSE s1

\* A faulty cycle: it counts the delay timer down itself, once per call.
cycle_counting_down(s, rnd, overflow_checks) ==
    IF s.paused THEN s
    ELSE LET s1 == [s EXCEPT !.delay_timer = IF @ > 0 THEN @ - 1 ELSE 0]
         IN  fetch_and_excecute(
                 IF s1.recieved_key_press THEN handle_await_keypress(s1) ELSE s1,
                 rnd, overflow_checks)


\* cycle (chip8.rs 328-343).  display.is_dirty() and render() read the pixel
\* array and change none of the state kept here.
cycle(s, rnd, overflow_checks) ==
    IF s.paused THEN s
    ELSE fetch_and_excecute(
             IF s.recieved_key_press THEN handle_await_keypress(s) ELSE s,
             rnd, overflow_checks)

\* A faulty tick_timers: the timers are decremented without the test for
\* zero, wrapping as u8.
tick_timers_wrapping(s) ==
    LET s1 == [s EXCEPT !.delay_timer = (@ + 255) % 256]
        s2 == [s1 EXCEPT !.sound_timer = (@ + 255) % 256]
    IN  IF s2.sound_timer = 0 THEN [s2 EXCEPT !.sink = "stop"] ELSE s2

\* A faulty tick_timers: the sink is stopped whenever the sound timer is 0
\* after the tick.
tick_timers_stopping_at_zero(s) ==
    LET s1 == IF s.delay_timer > 0 THEN [s EXCEPT !.delay_timer = @ - 1] ELSE s
        s2 == IF s1.sound_timer > 0 THEN [s1 EXCEPT !.sound_timer = @ - 1] ELSE s1
    IN  IF s2.sound_timer = 0 THEN [s2 EXCEPT !.sink = "stop"] ELSE s2

\* tick_timers (chip8.rs 345-357).
tick_timers(s) ==
    LET s1 == IF s.delay_timer > 0 THEN [s EXCEPT !.delay_timer = @ - 1] ELSE s
    IN  IF s1.sound_timer > 0
        THEN LET s2 == [s1 EXCEPT !.sound_timer = @ - 1]
             IN  IF s2.sound_timer = 0 THEN [s2 EXCEPT !.sink = "stop"] ELSE s2
        ELSE s1

-----------------------------------------------------------------------------
(* The programs the host loads: each a sequence of 16-bit words, most       *)
(* significant byte first in the ROM file.                                  *)

\* Two key waits, each followed by an instruction that shows what the wait
\* left in its register, in a loop.
\*   200 F10A  V1 = key      202 8010  V0 = V1
\*   204 FF0A  VF = key      206 6F07  VF = 7       208 1200  jump 200
RomKeyWait == << \hF10A, \h8010, \hFF0A, \h6F07, \h1200 >>

\* Sound and delay timer writes: nonzero, nonzero over nonzero, zero.
\*   200 6002  V0 = 2     202 F018  sound = V0    204 F015  delay = V0
\*   206 6003  V0 = 3     208 F018  sound = V0
\*   20A 6000  V0 = 0     20C F018  sound = V0    20E 120E  spin
RomSound == << \h6002, \hF018, \hF015, \h6003, \hF018, \h6000, \hF018, \h120E >>

\* One sound timer write, then nothing but the spin loop.
\*   200 6003  V0 = 3     202 F018  sound = V0    204 F107  V1 = delay
\*   206 1206  spin
RomBeep == << \h6003, \hF018, \hF107, \h1206 >>

\* Sprites drawn twice at the same place, at a corner so that both
\* coordinates wrap: the font's glyph 0 and a one-row sprite kept in the ROM.
\*   200 603E  V0 = 62    202 611E  V1 = 30   204 A000  I = glyph 0
\*   206 D015  draw       208 D015  draw
\*   20A A214  I = 214    20C D011  draw      20E D011  draw
\*   210 D010  draw no row                    212 1212  spin
\*   214 81FF  sprite data
RomDraw ==
    << \h603E, \h611E, \hA000, \hD015, \hD015, \hA214, \hD011, \hD011,
       \hD010, \h1212, \h81FF >>

\* Words that are no instruction of the CHIP-8 set.
\*   200 6001  V0 = 1     202 E00E   204 5011   206 8018   208 9011
\*   20A F0FF             20C E1A2   20E 00E1   210 1210  spin
RomInvalid ==
    << \h6001, \hE00E, \h5011, \h8018, \h9011, \hF0FF, \hE1A2, \h00E1, \h1210 >>

\* A subroutine called and returned from at every stack depth, until the
\* stack is full.
\*   200 2206  call 206   202 2200  call 200   204 0000   206 00EE  return
RomCall == << \h2206, \h2200, \h0000, \h00EE >>

\* Two nested calls and their returns.
\*   200 2206  call 206   202 1202  spin       204 0000
\*   206 220A  call 20A   208 00EE  return     20A 00EE  return
RomNested == << \h2206, \h1202, \h0000, \h220A, \h00EE, \h00EE >>

\* A return with nothing to return to.
\*   200 6005  V0 = 5     202 00EE  return
RomReturn == << \h6005, \h00EE >>

\* A key wait while both timers run.
\*   200 6003  V0 = 3     202 F015  delay = V0    204 F018  sound = V0
\*   206 F20A  V2 = key   208 F307  V3 = delay    20A 120A  spin
RomTimedWait == << \h6003, \hF015, \hF018, \hF20A, \hF307, \h120A >>

\* A random byte.
\*   200 C103  V1 = random & 3                    202 1202  spin
RomRandom == << \hC103, \h1202 >>

Programs ==
    {RomKeyWait, RomSound, RomBeep, RomDraw, RomInvalid, RomCall, RomNested,
     RomReturn, RomTimedWait, RomRandom}

\* The bytes of a ROM file holding the words of rom.
Bytes(rom) ==
    [i \in 1..(2 * Len(rom)) |->
        IF i % 2 = 1 THEN rom[(i + 1) \div 2] \div 256 ELSE rom[i \div 2] % 256]

\* A ROM file that fills ram from 0x200 to its end, 3584 bytes:
\*   200 1202  jump 202   202 1202  spin      ...  FFE 1202
FullFile ==
    [i \in 1..(RAM_SIZE - PROGRAM_START) |-> IF i % 2 = 1 THEN \h12 ELSE \h02]

\* A ROM file one byte longer than ram has room for.
OverlongFile ==
    [i \in 1..(RAM_SIZE - PROGRAM_START + 1) |-> IF i % 2 = 1 THEN \h12 ELSE \h00]

\* The ROM files the host may be started on.
RomFiles == {Bytes(rom) : rom \in Programs} \cup {FullFile, OverlongFile}

-----------------------------------------------------------------------------
(* The state as one record, and back.                                      *)

Self ==
    [ram |-> ram, registers |-> registers, i_register |-> i_register,
     delay_timer |-> delay_timer, sound_timer |-> sound_timer, pc |-> pc,
     stack_ptr |-> stack_ptr, stack |-> stack, pixels |-> pixels,
     keys_down |-> keys_down, awaiting_key_press |-> awaiting_key_press,
     recieved_key_press |-> recieved_key_press,
     last_key_pressed |-> last_key_pressed, paused |-> paused,
     current_instruction |-> current_instruction, sink |-> sink,
     panicked |-> panicked, hist |-> hist]

\* sink holds the call ("play", "stop") the last operation made on the
\* rodio Sink, "none" when it made none: an operation starts with no call
\* made.
Entry == [Self EXCEPT !.sink = "none"]

Becomes(s) ==
    /\ ram' = s.ram
    /\ registers' = s.registers
    /\ i_register' = s.i_register
    /\ delay_timer' = s.delay_timer
    /\ sound_timer' = s.sound_timer
    /\ pc' = s.pc
    /\ stack_ptr' = s.stack_ptr
    /\ stack' = s.stack
    /\ pixels' = s.pixels
    /\ keys_down' = s.keys_down
    /\ awaiting_key_press' = s.awaiting_key_press
    /\ recieved_key_press' = s.recieved_key_press
    /\ last_key_pressed' = s.last_key_pressed
    /\ paused' = s.paused
    /\ current_instruction' = s.current_instruction
    /\ sink' = s.sink
    /\ panicked' = s.panicked
    /\ hist' = s.hist

\* The word the next fetch reads, or 0 when the fetch is out of ram.
NextWord == IF pc + 1 < RAM_SIZE THEN ram[pc] * 256 + ram[pc + 1] ELSE 0

\* The bytes rand::random may return to the next instruction: every byte
\* when it is Cxnn; one is enough for the others, which draw none.
RandomBytes == IF NextWord \div 4096 = 12 THEN 0..255 ELSE {0}

\* The builds that differ on the next instruction: with and without overflow
\* checks when it is a return with the stack empty.
Builds == IF NextWord = 238 /\ stack_ptr = 0 THEN BOOLEAN ELSE {TRUE}

Running == host = "running" /\ ~panicked

-----------------------------------------------------------------------------
(* The actions: main.rs 25-27 and the event loop of main.rs 33-88.         *)

Init ==
    /\ host = "constructed"
    /\ clock = 0
    /\ tick_times = << >>
    /\ ram = Chip8_new.ram
    /\ registers = Chip8_new.registers
    /\ i_register = Chip8_new.i_register
    /\ delay_timer = Chip8_new.delay_timer
    /\ sound_timer = Chip8_new.sound_timer
    /\ pc = Chip8_new.pc
    /\ stack_ptr = Chip8_new.stack_ptr
    /\ stack = Chip8_new.stack
    /\ pixels = Chip8_new.pixels
    /\ keys_down = Chip8_new.keys_down
    /\ awaiting_key_press = Chip8_new.awaiting_key_press
    /\ recieved_key_press = Chip8_new.recieved_key_press
    /\ last_key_pressed = Chip8_new.last_key_pressed
    /\ paused = Chip8_new.paused
    /\ current_instruction = Chip8_new.current_instruction
    /\ sink = Chip8_new.sink
    /\ panicked = Chip8_new.panicked
    /\ hist = Chip8_new.hist

\* chip8.load_program(rom_data)
LoadProgram ==
    /\ host = "constructed"
    /\ \E rom_data \in RomFiles : Becomes(load_program(Entry, rom_data))
    /\ host' = "running"
    /\ UNCHANGED <<clock, tick_times>>

\* chip8.cycle()
Cycle ==
    /\ Running
    /\ \E rnd \in RandomBytes, overflow_checks \in Builds :
           Becomes(cycle(Entry, rnd, overflow_checks))
    /\ UNCHANGED <<host, clock, tick_times>>

\* chip8.tick_timers().  The host's test of the time elapsed is left to the
\* environment: a tick may come between any two operations.
TickTimers ==
    /\ Running
    /\ Becomes(tick_timers(Entry))
    /\ UNCHANGED <<host, clock, tick_times>>

\* chip8.on_key_down(key)
OnKeyDown(key) ==
    /\ Running
    /\ Becomes(on_key_down(Entry, key))
    /\ UNCHANGED <<host, clock, tick_times>>

\* chip8.on_key_up(key)
OnKeyUp(key) ==
    /\ Running
    /\ Becomes(on_key_up(Entry, key))
    /\ UNCHANGED <<host, clock, tick_times>>

\* The P key, pressed or released: chip8.paused = !chip8.paused
TogglePause ==
    /\ Running
    /\ Becomes([Entry EXCEPT !.paused = ~@])
    /\ UNCHANGED <<host, clock, tick_times>>

KeyDown == \E key \in HostKeys : OnKeyDown(key)

KeyUp == \E key \in HostKeys : OnKeyUp(key)

Next == LoadProgram \/ Cycle \/ TickTimers \/ KeyDown \/ KeyUp \/ TogglePause

Spec == Init /\ [][Next]_vars

-----------------------------------------------------------------------------
(* The instructions on their own: the machine starts with one short        *)
(* program loaded (the state main.rs 27 leaves) and the host does nothing  *)
(* but call cycle(), so that an instruction meets every sampled value of   *)
(* its operands.                                                           *)

\* The register values the programs load.
ByteSamples == {0, 1, 2, 16, 127, 128, 254, 255}

\* The register pairs x, y the programs use: distinct, VF as x, VF as y, and
\* one register as both.
RegisterPairs == {<<0, 1>>, <<15, 1>>, <<1, 15>>, <<2, 2>>}

\* The instruction word with first digit a, then x, then y, then n.
Opcode(a, x, y, n) == a * 4096 + x * 256 + y * 16 + n

\*   200 6xaa  Vx = a     202 6ybb  Vy = b    204 op
\*   206 1206  spin       208 1208  spin (where a skip lands)
OperandRom(x, a, y, b, op) ==
    << Opcode(6, x, 0, 0) + a, Opcode(6, y, 0, 0) + b, op, \h1206, \h1208 >>

\* 8xy4, 8xy5, 8xy7, 8xy6 and 8xyE on every pair of sampled values.
ArithmeticPrograms ==
    {OperandRom(p[1], a, p[2], b, Opcode(8, p[1], p[2], n)) :
        p \in RegisterPairs, a \in ByteSamples, b \in ByteSamples,
        n \in {4, 5, 7, 6, 14}}

\* The values the skip programs compare.
SkipSamples == {0, 238, 239, 255}

\* 3xnn and 4xnn on every sampled Vx and nn, 5xy0 and 9xy0 on every pair of
\* sampled values.
SkipPrograms ==
    {OperandRom(x, a, 1, 0, Opcode(op, x, 0, 0) + b) :
        x \in {0, 15}, a \in SkipSamples, b \in SkipSamples, op \in {3, 4}}
    \cup
    {OperandRom(p[1], a, p[2], b, Opcode(op, p[1], p[2], 0)) :
        p \in RegisterPairs, a \in SkipSamples, b \in SkipSamples,
        op \in {5, 9}}

\* Instructions whose addresses run past the end of ram.
\*   200 60EA  V0 = 234   202 AFFF  I = FFF   204 F033  digits to FFF..1001
RomDigitsPastEnd == << \h60EA, \hAFFF, \hF033, \h1206 >>

\*   200 6001  V0 = 1     202 6102  V1 = 2    204 6203  V2 = 3
\*   206 AFFE  I = FFE    208 F255  V0..V2 to FFE..1000
RomStorePastEnd == << \h6001, \h6102, \h6203, \hAFFE, \hF255, \h120A >>

\*   200 6007  V0 = 7     202 AFFF  I = FFF   204 F055  V0 to FFF
\*   206 6000  V0 = 0     208 F165  V0, V1 from FFF..1000
RomLoadPastEnd == << \h6007, \hAFFF, \hF055, \h6000, \hF165, \h120A >>

\*   200 AFFF  I = FFF    202 D002  sprite rows from FFF..1000
RomDrawPastEnd == << \hAFFF, \hD002, \h1204 >>

\*   200 1FFF  jump FFF: the next word would be at FFF..1000
RomFetchPastEnd == << \h1FFF >>

\* The same instructions on the last addresses of ram.
\*   200 60EA  V0 = 234   202 AFFD  I = FFD   204 F033  digits to FFD..FFF
\*   206 F265  V0..V2 from FFD..FFF           208 D003  208 draw  20A spin
RomAtEnd == << \h60EA, \hAFFD, \hF033, \hF265, \hD003, \h120A >>

MemoryPrograms ==
    {RomDigitsPastEnd, RomStorePastEnd, RomLoadPastEnd, RomDrawPastEnd,
     RomFetchPastEnd, RomAtEnd}

\* Fx1E from I = base, with VF holding vf beforehand:
\*   200 6Fvf  VF = vf    202 6xaa  Vx = a    204 Annn  I = base
\*   206 Fx1E  I += Vx    208 1208  spin
IndexRom(vf, x, a, base) ==
    << Opcode(6, 15, 0, 0) + vf, Opcode(6, x, 0, 0) + a, Opcode(10, 0, 0, 0) + base,
       Opcode(15, x, 1, 14), \h1208 >>

\* Fx1E on every sampled Vx, from the bottom, near the top and at the top of
\* the 12-bit range, with VF 0 and 1 beforehand, and with VF itself as Vx.
IndexPrograms ==
    {IndexRom(vf, x, a, base) :
        vf \in {0, 1}, x \in {0, 15}, a \in ByteSamples,
        base \in {\h000, \hF00, \hFFF}}

\* V0..Vx stored at base, V0 and V1 overwritten, V0..Vx loaded back:
\*   200 6F07  VF = 7     202 60aa  V0 = a    204 61bb  V1 = b
\*   206 Annn  I = base   208 Fx55  store     20A 6055  V0 = 55
\*   20C 6166  V1 = 66    20E Fx65  load      210 1210  spin
StoreLoadRom(x, a, b, base) ==
    << \h6F07, \h6000 + a, \h6100 + b, Opcode(10, 0, 0, 0) + base,
       Opcode(15, x, 5, 5), \h6055, \h6166, Opcode(15, x, 6, 5), \h1210 >>

\* Fx55 and Fx65 with one, two, three and all sixteen registers, over the
\* font table, in free memory and on the last bytes of ram.
StoreLoadPrograms ==
    {StoreLoadRom(x, a, b, base) :
        x \in {0, 1, 2, 15}, a \in {1, 255}, b \in {2, 128},
        base \in {\h000, \h300, \hFF0}}

\* Fx33 on every byte, in free memory, and on some bytes from VF and on the
\* last three bytes of ram:
\*   200 6F07  VF = 7     202 6xvv  Vx = v    204 Annn  I = base
\*   206 Fx33  digits     208 1208  spin
DigitsRom(x, v, base) ==
    << \h6F07, Opcode(6, x, 0, 0) + v, Opcode(10, 0, 0, 0) + base,
       Opcode(15, x, 3, 3), \h1208 >>

DigitsPrograms ==
    {DigitsRom(0, v, \h300) : v \in 0..255}
    \cup
    {DigitsRom(x, v, base) :
        x \in {1, 15}, v \in ByteSamples, base \in {\h000, \hFFD}}

InstructionPrograms ==
    ArithmeticPrograms \cup SkipPrograms \cup MemoryPrograms \cup IndexPrograms
        \cup StoreLoadPrograms \cup DigitsPrograms

StartsAs(s) ==
    /\ ram = s.ram
    /\ registers = s.registers
    /\ i_register = s.i_register
    /\ delay_timer = s.delay_timer
    /\ sound_timer = s.sound_timer
    /\ pc = s.pc
    /\ stack_ptr = s.stack_ptr
    /\ stack = s.stack
    /\ pixels = s.pixels
    /\ keys_down = s.keys_down
    /\ awaiting_key_press = s.awaiting_key_press
    /\ recieved_key_press = s.recieved_key_press
    /\ last_key_pressed = s.last_key_pressed
    /\ paused = s.paused
    /\ current_instruction = s.current_instruction
    /\ sink = s.sink
    /\ panicked = s.panicked
    /\ hist = s.hist

\* Chip8::new(), then load_program(rom_data).
InitInstruction ==
    /\ host = "running"
    /\ clock = 0
    /\ tick_times = << >>
    /\ \E rom \in InstructionPrograms :
           StartsAs(load_program(Chip8_new, Bytes(rom)))

SpecInstruction == InitInstruction /\ [][Cycle]_vars

-----------------------------------------------------------------------------
(* The decoder on its own: the machine starts with a ROM file of one       *)
(* instruction word loaded, and the host calls cycle() on that word.       *)

\* The bytes paired with every value of the other byte of the word.
DecodeSamples == {\h00, \h5A, \hA5, \hFF}

\* The 16-bit words decoded: every first byte with the sampled second bytes
\* and every second byte with the sampled first bytes.
DecodeWords ==
    {first_byte * 256 + second_byte :
        first_byte \in 0..255, second_byte \in DecodeSamples}
    \cup
    {first_byte * 256 + second_byte :
        first_byte \in DecodeSamples, second_byte \in 0..255}

\* Chip8::new(), then load_program(rom_data) with a file of one word.
InitDecode ==
    /\ host = "running"
    /\ clock = 0
    /\ tick_times = << >>
    /\ \E word \in DecodeWords :
           StartsAs(load_program(Chip8_new, Bytes(<<word>>)))

\* The first chip8.cycle() of the run: the one that fetches the word at 0x200.
FirstCycle == pc = PROGRAM_START /\ Cycle

SpecDecode == InitDecode /\ [][FirstCycle]_vars

-----------------------------------------------------------------------------
(* The host loop with its clock: main.rs 29-88.  sound_interval is taken   *)
(* once, before the loop, and the closure winit calls for every event      *)
(* first compares sound_interval.elapsed() with 16 ms and then handles the *)
(* event.                                                                   *)

\* Duration::from_secs_f32(0.016), in milliseconds.
TICK_INTERVAL == 16

instructions_per_frame == 60

\* The programs the timed host loop runs; they draw no random byte and
\* return from no call, so that rnd and overflow_checks are the same for
\* every cycle() of a frame.
HostPrograms == {RomBeep, RomTimedWait}

\* The events winit hands to the closure.
HostEvents ==
    [kind : {"KeyboardInput"}, virtual_keycode : HostKeys \cup {"P"},
     state : {"Pressed", "Released"}]
    \cup {[kind |-> "MainEventsCleared"], [kind |-> "CloseRequested"],
          [kind |-> "RedrawRequested"]}

\* for _ in 0..n { chip8.cycle(); }: a panic ends the loop.
RECURSIVE cycles(_, _, _, _)
cycles(s, n, rnd, overflow_checks) ==
    IF n = 0 \/ s.panicked THEN s
    ELSE cycles(cycle(s, rnd, overflow_checks), n - 1, rnd, overflow_checks)

\* The match of the closure (main.rs 40-87) on the Chip8.
handle_event(s, event, rnd, overflow_checks) ==
    CASE event.kind = "KeyboardInput" ->
            IF event.virtual_keycode = "P"
            THEN [s EXCEPT !.paused = ~@]
            ELSE IF event.state = "Pressed"
            THEN on_key_down(s, event.virtual_keycode)
            ELSE on_key_up(s, event.virtual_keycode)
      [] event.kind = "MainEventsCleared" ->
            cycles(s, instructions_per_frame, rnd, overflow_checks)
      [] OTHER -> s

\* tick_times with one more call of tick_timers, at the time now.
RememberTick(times, now) ==
    IF Len(times) < TickLen THEN Append(times, now) ELSE Append(Tail(times), now)

\* std::time::Instant::now() at main.rs 31, after load_program.
InitHost ==
    /\ host = "running"
    /\ clock = 0
    /\ tick_times = << >>
    /\ \E rom \in HostPrograms : StartsAs(load_program(Chip8_new, Bytes(rom)))

\* A millisecond passes between two calls of the closure.
TimePasses ==
    /\ Running
    /\ clock < MaxClock
    /\ clock' = clock + 1
    /\ Becomes(Self)
    /\ UNCHANGED <<host, tick_times>>

\* One call of the closure (main.rs 33-88).
HostEvent ==
    /\ Running
    /\ \E event \in HostEvents, rnd \in RandomBytes, overflow_checks \in Builds :
           LET elapsed == clock
               ticks == elapsed >= TICK_INTERVAL
               ticked == IF ticks THEN tick_timers(Entry) ELSE Entry
           IN  /\ Becomes(handle_event(ticked, event, rnd, overflow_checks))
               /\ tick_times' = IF ticks THEN RememberTick(tick_times, clock)
                                         ELSE tick_times
               /\ host' = IF event.kind = "CloseRequested" THEN "exited" ELSE host
    /\ UNCHANGED clock

NextHost == TimePasses \/ HostEvent

SpecHost == InitHost /\ [][NextHost]_vars

-----------------------------------------------------------------------------
(* What the claims speak of.                                               *)

\* This step is a cycle() call that fetches and executes an instruction,
\* the word NextWord at address pc.
Dispatches == Cycle /\ ~paused /\ ~awaiting_key_press /\ pc + 1 < RAM_SIZE

\* Fx0A
IsKeyWait(word) == word \div 4096 = 15 /\ word % 256 = 10

\* The x of an instruction word.
XOf(word) == (word \div 256) % 16

\* This step is the release of a host key the keyboard maps.
MappedKeyUp == \E key \in HostKeys \cap MappedKeys : OnKeyUp(key)

\* The instruction dispatched last, and the one before it.
LastDispatch == hist[Len(hist)]
DispatchBefore(k) == hist[Len(hist) - k]

-----------------------------------------------------------------------------
(* C1  After cycle() executes Fx0A the engine waits: no cycle(), timer     *)
(* tick, key-down, pause toggle or release of an unmapped key moves PC,    *)
(* fetches an instruction or ends the wait.  The release of a mapped key   *)
(* records its nibble, which stays recorded until the following (unpaused) *)
(* cycle(); that cycle fetches again, and the instruction it executes      *)
(* finds the nibble in Vx, x the second nibble of the Fx0A.                *)

C1_EntersWait ==
    Dispatches /\ IsKeyWait(NextWord) => awaiting_key_press' /\ pc' = pc + 2

C1_Frozen ==
    awaiting_key_press /\ ~MappedKeyUp =>
        /\ awaiting_key_press'
        /\ ~recieved_key_press'
        /\ pc' = pc
        /\ current_instruction' = current_instruction
        /\ hist' = hist
        /\ registers' = registers

C1_Release ==
    \A key \in HostKeys \cap MappedKeys :
        awaiting_key_press /\ OnKeyUp(key) =>
            /\ recieved_key_press'
            /\ last_key_pressed' = KeyCode(key)
            /\ pc' = pc

C1_Resolved ==
    recieved_key_press =>
        \/ /\ recieved_key_press'
           /\ last_key_pressed' = last_key_pressed
           /\ pc' = pc
           /\ hist' = hist
        \/ /\ Cycle /\ ~paused
           /\ ~recieved_key_press'
           /\ Len(hist') > 0
           /\ hist'[Len(hist')].addr = pc
           /\ hist'[Len(hist')].op = NextWord
           /\ hist'[Len(hist')].regs[d2(current_instruction)] = last_key_pressed

\* C1: after Fx0A nothing but the release of a mapped key moves PC, fetches
\* or ends the wait; the release records the key, and the next cycle() finds
\* it in Vx and fetches again.
C1_KeyWait ==
    [][C1_EntersWait /\ C1_Frozen /\ C1_Release /\ C1_Resolved]_vars

\* Key2 was released during the wait of F10A at 200, and 8010 at 202 has
\* copied the 2 it found in V1 to V0.
C1_Witness ==
    /\ Len(hist) >= 2
    /\ DispatchBefore(1).op = \hF10A
    /\ LastDispatch.op = \h8010
    /\ LastDispatch.regs[1] = 2
    /\ registers[0] = 2
    /\ pc = \h204

-----------------------------------------------------------------------------
(* C2  When a key wait is resolved, the cycle() that resolves it writes    *)
(* the recorded key into the target register of the Fx0A and then          *)
(* dispatches exactly one instruction: the one at the address after the    *)
(* Fx0A, which starts from the registers with the key already in Vx.       *)
(* Nothing is skipped, and the Fx0A is not fetched again.                  *)

\* While a wait is pending or resolved, PC is at the address after the Fx0A.
C2_Pending ==
    awaiting_key_press \/ recieved_key_press =>
        /\ Len(hist) > 0
        /\ IsKeyWait(LastDispatch.op)
        /\ IsKeyWait(Word(current_instruction))
        /\ XOf(LastDispatch.op) = d2(current_instruction)
        /\ pc = LastDispatch.addr + 2

C2_Resume ==
    recieved_key_press /\ Cycle /\ ~paused =>
        LET wait == LastDispatch
            e == hist'[Len(hist')]
        IN  /\ Len(hist') > 0
            /\ hist' = Remember(hist, e)
            /\ e.addr = wait.addr + 2
            /\ e.op = ram[e.addr] * 256 + ram[e.addr + 1]
            /\ e.regs = [registers EXCEPT ![XOf(wait.op)] = last_key_pressed]
            /\ ~recieved_key_press'

\* C2: the resolving cycle() writes the key to Vx, then dispatches once,
\* from the address after the Fx0A.
C2_ResumeAfterWait == []C2_Pending /\ [][C2_Resume]_vars

\* Key1 was released during the wait of FF0A at 204; 6F07 at 206 started
\* with 1 in VF and has put 7 there.
C2_Witness ==
    /\ Len(hist) >= 2
    /\ DispatchBefore(1).op = \hFF0A
    /\ DispatchBefore(1).addr = \h204
    /\ LastDispatch.op = \h6F07
    /\ LastDispatch.addr = \h206
    /\ LastDispatch.regs[15] = 1
    /\ registers[15] = 7
    /\ pc = \h208

-----------------------------------------------------------------------------
(* C3  While the engine awaits a key, only the release of a mapped key     *)
(* ends the wait, and it records the nibble of the key released; a key     *)
(* going down leaves the engine waiting, with PC and the registers as      *)
(* they were and nothing recorded.                                         *)

C3_OnlyRelease ==
    awaiting_key_press /\ ~awaiting_key_press' =>
        \E key \in HostKeys \cap MappedKeys :
            /\ OnKeyUp(key)
            /\ recieved_key_press'
            /\ last_key_pressed' = KeyCode(key)

C3_KeyDown ==
    \A key \in HostKeys :
        awaiting_key_press /\ OnKeyDown(key) =>
            /\ awaiting_key_press'
            /\ ~recieved_key_press'
            /\ last_key_pressed' = last_key_pressed
            /\ pc' = pc
            /\ registers' = registers

\* C3: only the release of a mapped key ends the wait, recording that key;
\* a key going down changes neither the wait, PC nor the registers.
C3_ReleaseEndsWait == [][C3_OnlyRelease /\ C3_KeyDown]_vars

\* Key1 went down and stayed down; the wait of F10A ended with the release
\* of Key2, whose nibble is recorded.
C3_Witness ==
    /\ recieved_key_press
    /\ ~awaiting_key_press
    /\ last_key_pressed = 2
    /\ keys_down = {1}
    /\ Len(hist) = 1
    /\ LastDispatch.op = \hF10A

-----------------------------------------------------------------------------
(* C4  Dxyn leaves VF = 1 if and only if the draw turned at least one      *)
(* pixel that was on off, in any row and at any bit of the sprite, and     *)
(* VF = 0 otherwise.                                                       *)

\* Dxyn
IsDraw(word) == word \div 4096 = 13

C4_Collision ==
    Dispatches /\ IsDraw(NextWord) /\ ~panicked' =>
        /\ registers'[15] \in {0, 1}
        /\ registers'[15] = 1 <=> (\E p \in pixels : p \notin pixels')

\* C4: after Dxyn, VF = 1 iff some pixel went from on to off, else VF = 0.
C4_DrawCollisionFlag == [][C4_Collision]_vars

-----------------------------------------------------------------------------
(* C5  A sprite with at least one set bit drawn on a cleared display       *)
(* reports no collision and turns on exactly its pixels; drawn again at    *)
(* the same coordinates it reports a collision and leaves the display      *)
(* cleared.                                                                *)

\* The rows Dxyn reads: ram[I .. I + n).
SpriteRows == [r \in 1..(NextWord % 16) |-> ram[i_register + r - 1]]

\* The pixels of the sprite rows, drawn at (x, y) with each coordinate wrapped.
SpritePixels(x, y, rows) ==
    {<<(y + r - 1) % HEIGHT, (x + b) % WIDTH>> :
        <<r, b>> \in {q \in (1..Len(rows)) \X (0..7) :
                        (rows[q[1]] \div Pow2(7 - q[2])) % 2 = 1}}

\* The pixels of the sprite the next Dxyn draws.
NextSprite ==
    SpritePixels(registers[XOf(NextWord)], registers[(NextWord \div 16) % 16],
                 SpriteRows)

DrawsSprite ==
    /\ Dispatches /\ IsDraw(NextWord) /\ ~recieved_key_press
    /\ i_register + (NextWord % 16) <= RAM_SIZE
    /\ NextSprite # {}

C5_FirstDraw ==
    DrawsSprite /\ pixels = {} =>
        registers'[15] = 0 /\ pixels' = NextSprite

C5_SecondDraw ==
    DrawsSprite /\ pixels = NextSprite /\ Len(hist) > 0
                /\ LastDispatch.op = NextWord =>
        registers'[15] = 1 /\ pixels' = {}

\* C5: a non-empty sprite drawn twice at one place on a cleared display:
\* no collision and its pixels on, then a collision and the display cleared.
C5_DrawTwice == [][C5_FirstDraw /\ C5_SecondDraw]_vars

-----------------------------------------------------------------------------
(* C6  The sink is started by exactly the operations that take the sound   *)
(* timer from 0 to nonzero, and stopped by exactly those that take it      *)
(* from nonzero to 0.                                                      *)

C6_Start == sink' = "play" <=> (sound_timer = 0 /\ sound_timer' > 0)

C6_Stop == sink' = "stop" <=> (sound_timer > 0 /\ sound_timer' = 0)

\* C6: the sink is started iff the sound timer goes 0 -> nonzero and stopped
\* iff it goes nonzero -> 0, in every operation.
C6_AudioOnTransitions == [][C6_Start /\ C6_Stop]_vars

-----------------------------------------------------------------------------
(* C7  A word that matches no pattern of the instruction table is a        *)
(* two-byte no-op: cycle() moves PC by 2 and changes nothing else,         *)
(* whatever keys are down.                                                 *)

\* The patterns of the instruction table.
TableInstruction(word) ==
    LET a == word \div 4096
        x == (word \div 256) % 16
        y == (word \div 16) % 16
        n == word % 16
    IN  \/ word \in {\h00E0, \h00EE}
        \/ a \in {1, 2, 3, 4, 6, 7, 10, 11, 12, 13}
        \/ a \in {5, 9} /\ n = 0
        \/ a = 8 /\ n \in {0, 1, 2, 3, 4, 5, 6, 7, 14}
        \/ a = 14 /\ word % 256 \in {\h9E, \hA1}
        \/ a = 15 /\ word % 256 \in
               {\h07, \h0A, \h15, \h18, \h1E, \h29, \h33, \h55, \h65}

C7_NoOp ==
    Dispatches /\ ~recieved_key_press /\ ~TableInstruction(NextWord) =>
        /\ pc' = pc + 2
        /\ UNCHANGED <<registers, i_register, ram, stack, stack_ptr,
                       delay_timer, sound_timer, pixels, keys_down,
                       awaiting_key_press, recieved_key_press, panicked>>

\* C7: a word outside the instruction table only moves PC by 2.
C7_UnmatchedIsNoOp == [][C7_NoOp]_vars

-----------------------------------------------------------------------------
(* C8  A 2nnn executed with fewer than 16 entries on the stack and         *)
(* followed at once by 00EE leaves PC at the address after the 2nnn and    *)
(* the stack pointer where it was before the call.  2nnn writes only the   *)
(* entry at the stack pointer and 00EE reads the entry below it, so        *)
(* nested calls return in the reverse of the order they were made.         *)

\* 2nnn
IsCall(word) == word \div 4096 = 2

C8_CallThenReturn ==
    Len(hist) >= 2 /\ IsCall(DispatchBefore(1).op) /\ LastDispatch.op = \h00EE =>
        /\ ~panicked
        /\ DispatchBefore(1).sp < STACK_SIZE
        /\ pc = DispatchBefore(1).addr + 2
        /\ stack_ptr = DispatchBefore(1).sp

C8_NestedReturns ==
    /\ Len(hist) >= 4
    /\ IsCall(DispatchBefore(3).op) /\ IsCall(DispatchBefore(2).op)
    /\ DispatchBefore(1).op = \h00EE /\ LastDispatch.op = \h00EE
    => /\ ~panicked
       /\ LastDispatch.addr = DispatchBefore(2).addr + 2
       /\ pc = DispatchBefore(3).addr + 2
       /\ stack_ptr = DispatchBefore(3).sp

C8_Push ==
    Dispatches /\ IsCall(NextWord) /\ stack_ptr < STACK_SIZE =>
        /\ stack' = [stack EXCEPT ![stack_ptr] = pc + 2]
        /\ stack_ptr' = stack_ptr + 1
        /\ pc' = NextWord % 4096

C8_Pop ==
    Dispatches /\ NextWord = \h00EE /\ stack_ptr > 0 =>
        /\ pc' = stack[stack_ptr - 1]
        /\ stack_ptr' = stack_ptr - 1
        /\ stack' = stack

\* C8: 2nnn then 00EE leaves PC after the call and the stack depth as before;
\* nested calls return in reverse order.
C8_CallReturn ==
    [](C8_CallThenReturn /\ C8_NestedReturns) /\ [][C8_Push /\ C8_Pop]_vars

\* The call at 200 made with 15 entries on the stack has returned to 202.
C8_Witness ==
    /\ Len(hist) >= 2
    /\ DispatchBefore(1).op = \h2206
    /\ DispatchBefore(1).addr = \h200
    /\ DispatchBefore(1).sp = 15
    /\ LastDispatch.op = \h00EE
    /\ pc = \h202
    /\ stack_ptr = 15

-----------------------------------------------------------------------------
(* C9  Both timers stay in 0..255, and tick_timers() lowers each by        *)
(* exactly 1 when it is not 0 and leaves it at 0 when it is.               *)

C9_Range == delay_timer \in 0..255 /\ sound_timer \in 0..255

C9_Tick ==
    TickTimers =>
        /\ delay_timer' = (IF delay_timer = 0 THEN 0 ELSE delay_timer - 1)
        /\ sound_timer' = (IF sound_timer = 0 THEN 0 ELSE sound_timer - 1)

\* C9: the timers stay in 0..255; a tick lowers each by 1, or leaves it 0.
C9_TimersSaturate == []C9_Range /\ [][C9_Tick]_vars

\* RomBeep never sets the delay timer: two ticks have taken the sound timer
\* from 3 to 1 and left the delay timer at 0.
C9_Witness ==
    /\ registers[0] = 3
    /\ pc = \h206
    /\ sound_timer = 1
    /\ delay_timer = 0
    /\ registers[1] = 0

-----------------------------------------------------------------------------
(* C10  As the ticks count down a sound timer that Fx18 set, the sink is   *)
(* stopped by the tick that takes the timer from 1 to 0 and by no other    *)
(* tick, and by nothing that is not a tick.                                *)

C10_StopTick ==
    TickTimers =>
        /\ sink' = "stop" <=> sound_timer = 1
        /\ sound_timer = 1 => sound_timer' = 0

C10_OnlyTickStops == sink' = "stop" => TickTimers /\ sound_timer = 1

\* C10: the sink is stopped by the tick taking the sound timer 1 -> 0, and
\* by nothing else.
C10_StopOnce == [][C10_StopTick /\ C10_OnlyTickStops]_vars

\* RomBeep set the sound timer to 3; the third tick has stopped the sink.
C10_Witness ==
    /\ registers[0] = 3
    /\ pc = \h206
    /\ sound_timer = 0
    /\ sink = "stop"

-----------------------------------------------------------------------------
(* C11  8xy4, 8xy5 and 8xy7 leave in Vx the sum or the difference modulo   *)
(* 256 and in VF the carry or no-borrow flag computed from the values      *)
(* before the instruction; with x = F it is the flag that VF keeps.         *)

IsArithmetic(word, n) == word \div 4096 = 8 /\ word % 16 = n

YOf(word) == (word \div 16) % 16

\* The registers after Vx := value and then VF := flag.
ResultThenFlag(x, value, flag) ==
    [[registers EXCEPT ![x] = value] EXCEPT ![15] = IF flag THEN 1 ELSE 0]

C11_Add ==
    Dispatches /\ IsArithmetic(NextWord, 4) =>
        LET vx == registers[XOf(NextWord)]
            vy == registers[YOf(NextWord)]
        IN  registers' = ResultThenFlag(XOf(NextWord), (vx + vy) % 256, vx + vy > 255)

C11_Sub ==
    Dispatches /\ IsArithmetic(NextWord, 5) =>
        LET vx == registers[XOf(NextWord)]
            vy == registers[YOf(NextWord)]
        IN  registers' = ResultThenFlag(XOf(NextWord), (vx - vy) % 256, vx >= vy)

C11_SubFrom ==
    Dispatches /\ IsArithmetic(NextWord, 7) =>
        LET vx == registers[XOf(NextWord)]
            vy == registers[YOf(NextWord)]
        IN  registers' = ResultThenFlag(XOf(NextWord), (vy - vx) % 256, vy >= vx)

\* C11: a cycle() that executes 8xy4, 8xy5 or 8xy7 leaves Vx the sum or
\* difference modulo 256 and then VF the flag, so that VF holds the flag when
\* x = F, and changes no other register.
C11_Arithmetic == [][C11_Add /\ C11_Sub /\ C11_SubFrom]_vars

\* 8F14 has run on VF = 255 and V1 = 2: VF holds the carry, 1, not the sum.
C11_Witness ==
    /\ Len(hist) > 0
    /\ LastDispatch.op = \h8F14
    /\ LastDispatch.regs[15] = 255
    /\ LastDispatch.regs[1] = 2
    /\ registers[15] = 1

-----------------------------------------------------------------------------
(* C12  A conditional skip moves PC by 4 from where it was fetched when    *)
(* its condition holds and by 2 when it does not, and changes no register. *)

IsSkip(word) ==
    \/ word \div 4096 \in {3, 4}
    \/ word \div 4096 \in {5, 9} /\ word % 16 = 0

\* The condition of the skip word on the registers of this state.
SkipCondition(word) ==
    LET vx == registers[XOf(word)]
        vy == registers[YOf(word)]
    IN  CASE word \div 4096 = 3 -> vx = word % 256
          [] word \div 4096 = 4 -> vx # word % 256
          [] word \div 4096 = 5 -> vx = vy
          [] word \div 4096 = 9 -> vx # vy

C12_Skip ==
    Dispatches /\ IsSkip(NextWord) =>
        /\ pc' = pc + (IF SkipCondition(NextWord) THEN 4 ELSE 2)
        /\ registers' = registers
        /\ i_register' = i_register

\* C12: a cycle() that executes 3xnn, 4xnn, 5xy0 or 9xy0 leaves PC 4 past the
\* instruction's address when the condition holds and 2 past it otherwise,
\* with every register as it was.
C12_ConditionalSkips == [][C12_Skip]_vars

\* 30EF has skipped on V0 = EF, and 30EE would not have.
C12_Witness ==
    /\ Len(hist) > 0
    /\ LastDispatch.op = \h30EF
    /\ LastDispatch.regs[0] = 239
    /\ pc = LastDispatch.addr + 4

-----------------------------------------------------------------------------
(* C13  The state Chip8::new() leaves: the font table in ram[0x000,0x050),  *)
(* every other byte of ram 0, the registers, I, the stack, the stack       *)
(* pointer and both timers 0, PC at 0x200, and no key awaited.              *)

\* The 16 glyphs of the hexadecimal font, five rows each.
ReferenceFont ==
    << \hF0, \h90, \h90, \h90, \hF0,    \h20, \h60, \h20, \h20, \h70,
       \hF0, \h10, \hF0, \h80, \hF0,    \hF0, \h10, \hF0, \h10, \hF0,
       \h90, \h90, \hF0, \h10, \h10,    \hF0, \h80, \hF0, \h10, \hF0,
       \hF0, \h80, \hF0, \h90, \hF0,    \hF0, \h10, \h20, \h40, \h40,
       \hF0, \h90, \hF0, \h90, \hF0,    \hF0, \h90, \hF0, \h10, \hF0,
       \hF0, \h90, \hF0, \h90, \h90,    \hE0, \h90, \hE0, \h90, \hE0,
       \hF0, \h80, \h80, \h80, \hF0,    \hE0, \h90, \h90, \h90, \hE0,
       \hF0, \h80, \hF0, \h80, \hF0,    \hF0, \h80, \hF0, \h80, \h80 >>

C13_Constructed ==
    /\ DOMAIN ram = 0..4095
    /\ \A a \in 0..79 : ram[a] = ReferenceFont[a + 1]
    /\ \A a \in 80..4095 : ram[a] = 0
    /\ DOMAIN registers = 0..15
    /\ \A r \in 0..15 : registers[r] = 0
    /\ i_register = 0
    /\ DOMAIN stack = 0..15
    /\ \A e \in 0..15 : stack[e] = 0
    /\ stack_ptr = 0
    /\ delay_timer = 0
    /\ sound_timer = 0
    /\ pc = 512
    /\ ~awaiting_key_press
    /\ ~recieved_key_press
    /\ ~panicked

\* C13: between construction and the program load, ram holds the font table
\* at 0x000..0x04F and 0 elsewhere, the registers, I, the stack, the stack
\* pointer and the timers are 0, PC is 0x200 and no key is awaited.
C13_AfterConstruction == host = "constructed" => C13_Constructed

\* The constructed machine, with the last row of glyph F in place.
C13_Witness == host = "constructed" /\ ram[79] = 128 /\ ram[80] = 0 /\ pc = 512

-----------------------------------------------------------------------------
(* C14  load_program copies a program of at most 3584 bytes to ram from    *)
(* 0x200 on and changes nothing else; a longer one ends in an error, not   *)
(* in a machine that runs on a truncated or wrapped copy.                   *)

\* The load of rom_data took place in this step as the claim describes it.
C14_Loaded(rom_data) ==
    IF Len(rom_data) <= 3584
    THEN /\ ~panicked'
         /\ ram' = [a \in 0..4095 |->
                       IF a >= 512 /\ a < 512 + Len(rom_data)
                       THEN rom_data[a - 511] ELSE ram[a]]
         /\ UNCHANGED <<registers, i_register, pc, stack, stack_ptr,
                        delay_timer, sound_timer, pixels, keys_down,
                        awaiting_key_press>>
    ELSE panicked'

\* C14: every load_program step is the verbatim copy of one of the ROM files
\* to ram[0x200 .. 0x200 + len), with the rest of ram, the registers, PC, the
\* stack and the timers unchanged, or, for a file longer than 3584 bytes,
\* the error.
C14_LoadProgram ==
    [][LoadProgram => \E rom_data \in RomFiles : C14_Loaded(rom_data)]_vars

\* The 3584-byte file is loaded: its last byte is the last byte of ram, and
\* the font table is where it was.
C14_Witness ==
    /\ host = "running"
    /\ ~panicked
    /\ Len(hist) = 0
    /\ ram[4095] = 2
    /\ ram[4094] = 18
    /\ ram[511] = 0
    /\ ram[79] = 128

-----------------------------------------------------------------------------
(* C15  The decoder: of a 16-bit word v it gives the four hexadecimal      *)
(* digits from the most to the least significant, its low byte as nn and   *)
(* its low 12 bits as nnn.                                                  *)

\* This step fetched and dispatched a word: it is the word at pc, and the
\* history has it as its last entry.
C15_Fetched == hist' # hist /\ pc + 1 < RAM_SIZE

C15_Decoded ==
    C15_Fetched =>
        LET v == NextWord
            decoded == current_instruction'
        IN  /\ d1(decoded) = (v \div 4096) % 16
            /\ d2(decoded) = (v \div 256) % 16
            /\ d3(decoded) = (v \div 16) % 16
            /\ d4(decoded) = v % 16
            /\ nn(decoded) = v % 256
            /\ nnn(decoded) = v % 4096

\* C15: the instruction a cycle() decodes from the word v it fetches has
\* d1 = (v >> 12) & F, d2 = (v >> 8) & F, d3 = (v >> 4) & F, d4 = v & F,
\* nn = v & FF and nnn = v & FFF.
C15_Decode == [][C15_Decoded]_vars

\* The word A5C3 has been fetched and decoded: nnn = 5C3, nn = C3.
C15_Witness ==
    /\ ram[512] = \hA5
    /\ ram[513] = \hC3
    /\ pc = 514
    /\ nnn(current_instruction) = \h5C3
    /\ nn(current_instruction) = \hC3
    /\ d1(current_instruction) = 10

-----------------------------------------------------------------------------
(* C16  The stack pointer stays between 0 and 16 in every state.            *)

\* C16: in every reachable state 0 <= stack_ptr <= 16.
C16_StackPointerInRange == stack_ptr >= 0 /\ stack_ptr <= 16

-----------------------------------------------------------------------------
(* C17  A call on a full stack and a return on an empty one are either      *)
(* clamped or halt the machine; neither moves the stack pointer out of     *)
(* 0..16 nor touches anything outside the 16 stack entries.                 *)

IsReturn(word) == word = \h00EE

\* The next instruction is a call with the stack full or a return with the
\* stack empty.
C17_StackFault ==
    \/ IsCall(NextWord) /\ stack_ptr = 16
    \/ IsReturn(NextWord) /\ stack_ptr = 0

\* The instruction is dropped and the machine runs on.
C17_Clamped == ~panicked' /\ stack_ptr' = stack_ptr /\ stack' = stack

\* The machine halts with its stack as it was.
C17_Halted == panicked' /\ stack_ptr' = stack_ptr /\ stack' = stack

\* C17: a cycle() that executes 2nnn with 16 entries on the stack or 00EE
\* with none either clamps or halts, leaving the stack pointer where it was
\* (never wrapped) and the 16 entries untouched.
C17_StackPolicy ==
    [][Dispatches /\ C17_StackFault => C17_Clamped \/ C17_Halted]_vars

-----------------------------------------------------------------------------
(* C18  An instruction whose address falls outside ram is either absorbed   *)
(* or halts the machine; one that halts has written nothing first.          *)

\* This cycle() halted the machine.
C18_Halts == Cycle /\ panicked'

C18_NothingWritten ==
    /\ ram' = ram
    /\ registers' = registers
    /\ i_register' = i_register
    /\ pixels' = pixels

\* C18: a cycle() that halts on an address outside ram (the fetch at PC,
\* Dxyn, Fx33, Fx55, Fx65) leaves memory, the registers and the display as
\* they were before it, with none of the instruction's writes done.
C18_HaltWritesNothing == [][C18_Halts => C18_NothingWritten]_vars

-----------------------------------------------------------------------------
(* C19  Fx1E adds Vx to I and leaves VF 1 when the sum is beyond 0x0FFF    *)
(* and 0 when it is not.                                                    *)

IsAddToIndex(word) == word \div 4096 = 15 /\ word % 256 = \h1E

C19_AddToIndex ==
    Dispatches /\ IsAddToIndex(NextWord) =>
        LET sum == i_register + registers[XOf(NextWord)]
        IN  /\ i_register' = sum
            /\ registers' = [registers EXCEPT ![15] = IF sum > \hFFF THEN 1 ELSE 0]

\* C19: a cycle() that executes Fx1E leaves I = I + Vx, and VF = 1 when that
\* sum is greater than 0x0FFF and VF = 0 when it is not, whatever VF was.
C19_IndexOverflowFlag == [][C19_AddToIndex]_vars

-----------------------------------------------------------------------------
(* C20  8xy6 and 8xyE shift the value Vy had before the instruction into   *)
(* Vx and leave in VF the bit shifted out of it; with x = F it is that bit *)
(* that VF keeps.                                                           *)

C20_ShiftRight ==
    Dispatches /\ IsArithmetic(NextWord, 6) =>
        LET vy == registers[YOf(NextWord)]
        IN  registers' = ResultThenFlag(XOf(NextWord), vy \div 2, vy % 2 = 1)

C20_ShiftLeft ==
    Dispatches /\ IsArithmetic(NextWord, 14) =>
        LET vy == registers[YOf(NextWord)]
        IN  registers' = ResultThenFlag(XOf(NextWord), (vy * 2) % 256, vy >= 128)

\* C20: a cycle() that executes 8xy6 leaves Vx = old Vy >> 1 and then VF =
\* bit 0 of old Vy; one that executes 8xyE leaves Vx = (old Vy << 1) mod 256
\* and then VF = bit 7 of old Vy; VF holds the bit when x = F, and no other
\* register changes.
C20_Shifts == [][C20_ShiftRight /\ C20_ShiftLeft]_vars

\* 8016 has run on V0 = 128 and V1 = 255: V0 is 127 and VF the bit shifted
\* out of V1, 1, where V0's own low bit was 0.
C20_Witness ==
    /\ Len(hist) > 0
    /\ LastDispatch.op = \h8016
    /\ LastDispatch.regs[0] = 128
    /\ LastDispatch.regs[1] = 255
    /\ registers[0] = 127
    /\ registers[15] = 1

-----------------------------------------------------------------------------
(* C21  Fx55 copies V0..Vx to ram[I..I+x] and Fx65 copies ram[I..I+x] to   *)
(* V0..Vx; neither changes I, the other registers or the rest of ram, so   *)
(* that a load after a store gives V0..Vx back.                             *)

IsStore(word) == word \div 4096 = 15 /\ word % 256 = \h55

IsLoad(word) == word \div 4096 = 15 /\ word % 256 = \h65

\* 6xnn
IsSet(word) == word \div 4096 = 6

C21_Store ==
    Dispatches /\ IsStore(NextWord) /\ i_register + XOf(NextWord) < 4096 =>
        /\ ram' = [a \in 0..4095 |->
                      IF a >= i_register /\ a <= i_register + XOf(NextWord)
                      THEN registers[a - i_register] ELSE ram[a]]
        /\ registers' = registers
        /\ i_register' = i_register

C21_Load ==
    Dispatches /\ IsLoad(NextWord) /\ i_register + XOf(NextWord) < 4096 =>
        /\ registers' = [r \in 0..15 |->
                            IF r <= XOf(NextWord)
                            THEN ram[i_register + r] ELSE registers[r]]
        /\ ram' = ram
        /\ i_register' = i_register

\* The last instruction was the k-th after an Fx55 with the same x, with
\* only 6xnn (which leave I and ram alone) in between.
C21_LoadAfterStore(k) ==
    /\ Len(hist) > k
    /\ ~panicked
    /\ IsLoad(LastDispatch.op)
    /\ IsStore(DispatchBefore(k).op)
    /\ XOf(DispatchBefore(k).op) = XOf(LastDispatch.op)
    /\ \A j \in 1..(k - 1) : IsSet(DispatchBefore(j).op)

C21_Restored ==
    \A k \in 1..(HistLen - 1) :
        C21_LoadAfterStore(k) =>
            \A r \in 0..XOf(LastDispatch.op) :
                registers[r] = DispatchBefore(k).regs[r]

\* Fx55 and Fx65 as single steps.
C21_Copies == [][C21_Store /\ C21_Load]_vars

\* C21: with I + x < 4096, a cycle() that executes Fx55 leaves ram[I..I+x] =
\* V0..Vx and one that executes Fx65 leaves V0..Vx = ram[I..I+x], each with
\* I, the other registers and the rest of ram unchanged; and after Fx65 that
\* follows Fx55 with the same x and I, V0..Vx are what they were at the Fx55.
C21_StoreLoad == C21_Copies /\ []C21_Restored

\* F255 stored V0 = 255, V1 = 128, V2 = 0 on the last bytes but thirteen of
\* ram, V0 and V1 were overwritten, and F265 has brought them back.
C21_Witness ==
    /\ C21_LoadAfterStore(3)
    /\ LastDispatch.op = \hF265
    /\ LastDispatch.regs[0] = \h55
    /\ LastDispatch.regs[1] = \h66
    /\ i_register = \hFF0
    /\ registers[0] = 255
    /\ registers[1] = 128
    /\ registers[2] = 0
    /\ registers[15] = 7

-----------------------------------------------------------------------------
(* C22  Fx33 writes the three decimal digits of Vx to ram[I], ram[I + 1]    *)
(* and ram[I + 2] and changes nothing else.                                 *)

IsDigits(word) == word \div 4096 = 15 /\ word % 256 = \h33

C22_Digits ==
    Dispatches /\ IsDigits(NextWord) /\ i_register + 2 < 4096 =>
        /\ \A k \in 0..2 : ram'[i_register + k] \in 0..9
        /\ 100 * ram'[i_register] + 10 * ram'[i_register + 1]
               + ram'[i_register + 2] = registers[XOf(NextWord)]
        /\ \A a \in 0..4095 :
               a < i_register \/ a > i_register + 2 => ram'[a] = ram[a]
        /\ registers' = registers
        /\ i_register' = i_register

\* C22: a cycle() that executes Fx33 leaves in ram[I], ram[I + 1], ram[I + 2]
\* three digits 0..9 with 100 * ram[I] + 10 * ram[I + 1] + ram[I + 2] = Vx,
\* and leaves the registers, I and every other byte of ram as they were.
C22_DecimalDigits == [][C22_Digits]_vars

\* F033 has run on V0 = 209: the digits 2, 0, 9 are at 0x300..0x302.
C22_Witness ==
    /\ Len(hist) > 0
    /\ LastDispatch.op = \hF033
    /\ LastDispatch.regs[0] = 209
    /\ i_register = \h300
    /\ ram[\h300] = 2
    /\ ram[\h301] = 0
    /\ ram[\h302] = 9

-----------------------------------------------------------------------------
(* C23  Ticks and cycles are decoupled: tick_timers() changes the timers   *)
(* and the audio and nothing else, also during a key wait, and cycle()     *)
(* changes a timer only by executing Fx15 or Fx18.                          *)

IsSetDelay(word) == word \div 4096 = 15 /\ word % 256 = \h15

IsSetSound(word) == word \div 4096 = 15 /\ word % 256 = \h18

C23_TickFrame ==
    TickTimers =>
        UNCHANGED <<pc, registers, i_register, ram, stack, stack_ptr,
                    awaiting_key_press, recieved_key_press, last_key_pressed,
                    keys_down, pixels, current_instruction, paused, panicked>>

C23_CycleDelay ==
    Cycle /\ delay_timer' # delay_timer =>
        /\ Dispatches
        /\ IsSetDelay(NextWord)
        /\ delay_timer' = registers[XOf(NextWord)]

C23_CycleSound ==
    Cycle /\ sound_timer' # sound_timer =>
        /\ Dispatches
        /\ IsSetSound(NextWord)
        /\ sound_timer' = registers[XOf(NextWord)]

\* C23: a tick_timers() step leaves PC, the registers, I, ram, the stack and
\* the key-wait flags as they were, whether or not a key is awaited; a
\* cycle() step changes the delay timer only by executing Fx15 and the sound
\* timer only by executing Fx18, to the value of Vx.
C23_Decoupled == [][C23_TickFrame /\ C23_CycleDelay /\ C23_CycleSound]_vars

\* A key is awaited and the last call was the tick that took the sound timer
\* from 1 to 0, with the delay timer counted down as well.
C23_Witness ==
    /\ awaiting_key_press
    /\ sink = "stop"
    /\ sound_timer = 0
    /\ delay_timer = 0
    /\ Len(hist) > 0
    /\ IsKeyWait(LastDispatch.op)
    /\ pc = LastDispatch.addr + 2

-----------------------------------------------------------------------------
(* C24  The host loop ticks the timers at a fixed cadence: no tick before   *)
(* one interval has passed since the tick before it, or since the start.    *)

\* C24: of the calls of tick_timers the host loop has made, the first came
\* no sooner than 16 ms after the start and each later one no sooner than
\* 16 ms after the one before.
C24_TickCadence ==
    /\ \A i \in 1..Len(tick_times) : tick_times[i] >= 16
    /\ \A i \in 2..Len(tick_times) : tick_times[i] - tick_times[i - 1] >= 16

-----------------------------------------------------------------------------
(* C25  The two flags of the key wait make three states: running (neither  *)
(* set), awaiting (awaiting_key_press) and resolved (recieved_key_press).  *)
(* Fx0A alone starts a wait, the release of a mapped key alone resolves    *)
(* it, and the cycle() that writes the key consumes the resolution.         *)

C25_NeverBoth == ~(awaiting_key_press /\ recieved_key_press)

\* awaiting_key_press is set only by a cycle() that executes Fx0A.
C25_WaitStarts ==
    ~awaiting_key_press /\ awaiting_key_press' =>
        Dispatches /\ IsKeyWait(NextWord)

\* recieved_key_press is set only by the release of a mapped key during a
\* wait, which ends the wait.
C25_WaitResolves ==
    ~recieved_key_press /\ recieved_key_press' =>
        MappedKeyUp /\ awaiting_key_press /\ ~awaiting_key_press'

\* The cycle() that writes the register clears recieved_key_press, and no
\* other cycle() writes a register on behalf of Fx0A: without the flag the
\* registers change only by the instruction dispatched.
C25_OneWrite ==
    /\ Cycle /\ ~paused /\ recieved_key_press =>
           ~recieved_key_press'
    /\ Cycle /\ ~recieved_key_press /\ registers' # registers =>
           Dispatches /\ ~IsKeyWait(NextWord)

\* C25: awaiting_key_press and recieved_key_press are never both true;
\* recieved_key_press becomes true only by a key release while a key is
\* awaited; and the register of an Fx0A is written by one cycle() only, the
\* one that finds recieved_key_press set and clears it.
C25_WaitStates ==
    /\ []C25_NeverBoth
    /\ [][C25_WaitStarts /\ C25_WaitResolves /\ C25_OneWrite]_vars

\* The second wait of the program is under way after the first was resolved
\* by the release of key 1, written to V1 once.
C25_Witness ==
    /\ awaiting_key_press
    /\ ~recieved_key_press
    /\ Len(hist) >= 3
    /\ LastDispatch.op = \hFF0A
    /\ DispatchBefore(1).op = \h8010
    /\ DispatchBefore(2).op = \hF10A
    /\ DispatchBefore(1).regs[1] = 1
    /\ registers[1] = 1
    /\ registers[0] = 1

====
